---- MODULE Spec2Model ----
(***************************************************************************)
(* ASAP micro-scheduler: the raw task queue (src/es/raw.js, class Raw) and *)
(* the error-isolating scheduler on top of it (src/es/index.js, class      *)
(* Asap).                                                                  *)
(*                                                                         *)
(* A task is identified by the number it got when it was scheduled         *)
(* (1, 2, 3, ... in scheduling order); the error a task throws is          *)
(* identified by the task's number.  When invoked, a task schedules some   *)
(* further tasks and then returns or throws.                               *)
(*                                                                         *)
(* JavaScript runs every host callback to completion: pc = "flush" while   *)
(* flush() is on the stack, one step per iteration of its loop, and the    *)
(* host and the client act only while pc = "idle".                         *)
(***************************************************************************)
EXTENDS Integers, Sequences, FiniteSets, TLC

\* Bounds of the model.
MaxTasks == 4      \* tasks scheduled in one behaviour
MaxKids == 2       \* tasks one invocation schedules
MaxManual == 2     \* direct calls of requestFlush by the client
\* this.capacity is 1024 in raw.js:29; the model scales the threshold down so
\* that compaction happens within MaxTasks tasks.  Everything below is stated
\* in terms of capacity.
capacity == 2

VARIABLES
    queue,          \* Raw.queue: the task storage (task numbers in the raw
                    \* scheduler, holder numbers in the safe scheduler)
    index,          \* Raw.index: 0-based position of the next task
    flushing,       \* Raw.flushing
    strategy,       \* which primitive the constructor chose for requestFlush
    observed,       \* a mutation of the observed text node awaits delivery
    timers,         \* requestCall's timer pairs that are still armed
    nreq,           \* timer pairs created so far (names them)
    freeTasks,      \* Asap.freeTasks: recycled holders
    rawTasks,       \* the holders made by getRawTask: rawTasks[h] is holder
                    \* h's task field, 0 for null
    pendingErrors,  \* Asap.pendingErrors
    onerror,        \* asap.onerror: "none", or a hook that returns ("ok") or
                    \* that throws ("throws")
    pc,             \* "idle" between turns, "flush" inside flush()
    nsched,         \* tasks scheduled so far
    schedBy,        \* schedBy[t]: the task that scheduled t, 0 for the client
    ran,            \* the tasks invoked, in order of invocation
    failed,         \* the tasks that threw, in order
    thrown,         \* the errors throwFirstError threw, in order
    hooked,         \* the errors handed to the hook, in order
    escaped,        \* the exceptions that left flush(), in order
    nflushreq,      \* calls of requestFlush so far
    nmanual,        \* direct calls of requestFlush by the client
    calls,          \* calls[id]: how often handleTimer of timer pair id has
                    \* called its callback
    rescued,        \* some callback was called by the interval of a pair
                    \* whose timeout the host had dropped
    ctor            \* the module that was loaded and what its
                    \* `new Asap()` did

vars == <<queue, index, flushing, strategy, observed, timers, nreq, freeTasks,
          rawTasks, pendingErrors, onerror, pc, nsched, schedBy, ran, failed,
          thrown, hooked, escaped, nflushreq, nmanual, calls, rescued, ctor>>

\* The part of the state the scheduler's methods read and write, as one value.
St ==
    [queue |-> queue, index |-> index, flushing |-> flushing,
     observed |-> observed, timers |-> timers, nreq |-> nreq,
     freeTasks |-> freeTasks, rawTasks |-> rawTasks,
     pendingErrors |-> pendingErrors, nsched |-> nsched, schedBy |-> schedBy,
     ran |-> ran, failed |-> failed, thrown |-> thrown, hooked |-> hooked,
     escaped |-> escaped, nflushreq |-> nflushreq, calls |-> calls]

Commit(s) ==
    /\ queue' = s.queue
    /\ index' = s.index
    /\ flushing' = s.flushing
    /\ observed' = s.observed
    /\ timers' = s.timers
    /\ nreq' = s.nreq
    /\ freeTasks' = s.freeTasks
    /\ rawTasks' = s.rawTasks
    /\ pendingErrors' = s.pendingErrors
    /\ nsched' = s.nsched
    /\ schedBy' = s.schedBy
    /\ ran' = s.ran
    /\ failed' = s.failed
    /\ thrown' = s.thrown
    /\ hooked' = s.hooked
    /\ escaped' = s.escaped
    /\ nflushreq' = s.nflushreq
    /\ calls' = s.calls

(***************************************************************************)
(* Platform request primitives                                             *)
(***************************************************************************)

\* Mutant of requestCallFromTimer: only the zero-delay timeout is set.
requestCallFromTimeoutOnly(s, cb) ==
    [s EXCEPT !.nreq = @ + 1,
              !.calls = Append(@, 0),
              !.timers = @ \cup {[id |-> s.nreq + 1, cb |-> cb,
                                  to |-> TRUE, iv |-> FALSE]}]

\* requestCall of makeRequestCallFromTimer: a zero-delay timeout and a 50 ms
\* interval, both armed with the same handleTimer.
requestCallFromTimer(s, cb) ==
    [s EXCEPT !.nreq = @ + 1,
              !.calls = Append(@, 0),
              !.timers = @ \cup {[id |-> s.nreq + 1, cb |-> cb,
                                  to |-> TRUE, iv |-> TRUE]}]

\* requestCall of makeRequestCallFromMutationObserver: toggling node.data
\* queues a mutation record; the host delivers the queued records in one call
\* of the observer's callback.
requestCallFromMutationObserver(s) ==
    [s EXCEPT !.observed = TRUE]

\* this.requestFlush, as the constructor chose it.
requestFlush(s) ==
    LET s1 == [s EXCEPT !.nflushreq = @ + 1]
    IN  IF strategy = "observer"
        THEN requestCallFromMutationObserver(s1)
        ELSE requestCallFromTimer(s1, "flush")

\* Mutant of requestErrorThrow: no new timer pair is requested while one for
\* throwFirstError is armed.
requestErrorThrowOnce(s) ==
    IF \E r \in s.timers : r.cb = "error"
    THEN s
    ELSE requestCallFromTimer(s, "error")

\* this.requestErrorThrow = makeRequestCallFromTimer(this.throwFirstError)
requestErrorThrow(s) ==
    requestCallFromTimer(s, "error")

\* Mutant of clearTimers: handleTimer clears every armed pair, not only its
\* own two handles.
clearEveryTimer(s, r) ==
    [s EXCEPT !.timers = {}]

\* Mutant of clearTimers: clearInterval is left out.
clearTimeoutOnly(s, r) ==
    LET cleared == [r EXCEPT !.to = FALSE]
    IN  [s EXCEPT !.timers = {x \in (@ \ {r}) \cup {cleared} : x.to \/ x.iv}]

\* clearTimeout(timeoutHandle); clearInterval(intervalHandle).  A pair with
\* both handles cleared can fire no more and is dropped from timers.
clearTimers(s, r) ==
    LET cleared == [r EXCEPT !.to = FALSE, !.iv = FALSE]
    IN  [s EXCEPT !.timers = {x \in (@ \ {r}) \cup {cleared} : x.to \/ x.iv}]

(***************************************************************************)
(* Raw                                                                     *)
(***************************************************************************)

\* Mutant of rawAsap: requestFlush is called on every call.
rawAsapAlways(s, task) ==
    [[requestFlush(s) EXCEPT !.flushing = TRUE] EXCEPT !.queue = Append(@, task)]

\* Mutant of rawAsap: the task is put at the position of the next task
\* instead of the end.
rawAsapNext(s, task) ==
    LET s1 == IF Len(s.queue) = 0
              THEN [requestFlush(s) EXCEPT !.flushing = TRUE]
              ELSE s
    IN  [s1 EXCEPT !.queue = SubSeq(@, 1, s.index) \o <<task>>
                               \o SubSeq(@, s.index + 1, Len(@))]

\* Mutant of rawAsap: flush is requested when no task is pending, rather
\* than when the storage is empty.
rawAsapNonePending(s, task) ==
    LET s1 == IF ~(s.index < Len(s.queue))
              THEN [requestFlush(s) EXCEPT !.flushing = TRUE]
              ELSE s
    IN  [s1 EXCEPT !.queue = Append(@, task)]

\* Mutant of rawAsap: flushing is not set.
rawAsapNoFlag(s, task) ==
    LET s1 == IF Len(s.queue) = 0 THEN requestFlush(s) ELSE s
    IN  [s1 EXCEPT !.queue = Append(@, task)]

rawAsap(s, task) ==
    LET s1 == IF Len(s.queue) = 0
              THEN [requestFlush(s) EXCEPT !.flushing = TRUE]
              ELSE s
    IN  [s1 EXCEPT !.queue = Append(@, task)]

\* The client (by = 0) or a running task (by = its number) makes a new task.
newTask(s, by) ==
    [s EXCEPT !.nsched = @ + 1, !.schedBy = Append(@, by)]

\* A raw task's body: it schedules n further tasks with rawAsap.
RECURSIVE rawKids(_, _, _)
rawKids(s, by, n) ==
    IF n = 0 THEN s
    ELSE rawKids(rawAsap(newTask(s, by), s.nsched + 1), by, n - 1)

\* queue[currentIndex].call() for a bare task t: the task runs, and its
\* exception, if it throws, is the call's.
rawCall(s, t, kids, throws) ==
    LET s1 == rawKids([s EXCEPT !.ran = Append(@, t)], t, kids)
    IN  [s |-> IF throws THEN [s1 EXCEPT !.failed = Append(@, t)] ELSE s1,
         exc |-> IF throws THEN <<[src |-> "task", t |-> t]>> ELSE <<>>]

\* Mutant of compact: the storage is shifted and shrunk but the index is not
\* reset.
compactKeepIndex(s) ==
    LET newLength == Len(s.queue) - s.index
    IN  [s EXCEPT !.queue = [scan \in 1..newLength |-> s.queue[scan + s.index]]]

\* Mutant of compact: the shift starts one entry early.
compactOffByOne(s) ==
    LET newLength == Len(s.queue) - s.index + 1
    IN  [s EXCEPT !.queue = [scan \in 1..newLength |->
                                s.queue[scan + s.index - 1]],
                  !.index = 0]

\* The compaction inside flush: shift the entries from index on down to 0,
\* shrink the storage by index, reset index.
compact(s) ==
    LET newLength == Len(s.queue) - s.index
    IN  [s EXCEPT !.queue = [scan \in 1..newLength |-> s.queue[scan + s.index]],
                  !.index = 0]

\* Mutant of flushEnd: the storage is not truncated.
flushEndKeepQueue(s) ==
    [s EXCEPT !.index = 0, !.flushing = FALSE]

\* Mutant of flushEnd: the index is not reset.
flushEndKeepIndex(s) ==
    [s EXCEPT !.queue = <<>>, !.flushing = FALSE]

\* What flush does once its loop is over.
flushEnd(s) ==
    [s EXCEPT !.queue = <<>>, !.index = 0, !.flushing = FALSE]

(***************************************************************************)
(* Asap                                                                    *)
(***************************************************************************)

\* Mutant of throwFirstError: pop() instead of shift().
throwFirstErrorLifo(s) ==
    IF Len(s.pendingErrors) > 0
    THEN [s EXCEPT !.thrown = Append(@, s.pendingErrors[Len(s.pendingErrors)]),
                   !.pendingErrors = SubSeq(@, 1, Len(@) - 1)]
    ELSE s

throwFirstError(s) ==
    IF Len(s.pendingErrors) > 0
    THEN [s EXCEPT !.thrown = Append(@, Head(s.pendingErrors)),
                   !.pendingErrors = Tail(@)]
    ELSE s

\* getRawTask: a new holder with task: null.
getRawTask(s) ==
    [s EXCEPT !.rawTasks = Append(@, 0)]

\* Mutant of asap: the pooled holder is read but not popped.
asapNoPop(s, task) ==
    LET pooled == Len(s.freeTasks) > 0
        rawTask == IF pooled THEN s.freeTasks[Len(s.freeTasks)]
                   ELSE Len(s.rawTasks) + 1
        s1 == IF pooled THEN s ELSE getRawTask(s)
    IN  rawAsap([s1 EXCEPT !.rawTasks[rawTask] = task], rawTask)

\* Mutant of asap: the pool is never consulted; every call makes a holder.
asapAlwaysAllocates(s, task) ==
    LET rawTask == Len(s.rawTasks) + 1
    IN  rawAsap([getRawTask(s) EXCEPT !.rawTasks[rawTask] = task], rawTask)

asap(s, task) ==
    LET pooled == Len(s.freeTasks) > 0
        rawTask == IF pooled THEN s.freeTasks[Len(s.freeTasks)]
                   ELSE Len(s.rawTasks) + 1
        s1 == IF pooled
              THEN [s EXCEPT !.freeTasks = SubSeq(@, 1, Len(@) - 1)]
              ELSE getRawTask(s)
    IN  rawAsap([s1 EXCEPT !.rawTasks[rawTask] = task], rawTask)

\* A task's body under the safe scheduler: it schedules n further tasks with
\* asap.
RECURSIVE safeKids(_, _, _)
safeKids(s, by, n) ==
    IF n = 0 THEN s
    ELSE safeKids(asap(newTask(s, by), s.nsched + 1), by, n - 1)

\* Mutant of catchError: with no hook the error is thrown at once, by a
\* direct call of throwFirstError instead of a timer request.
catchErrorSync(s, t) ==
    IF onerror # "none"
    THEN [s EXCEPT !.hooked = Append(@, t)]
    ELSE throwFirstError([s EXCEPT !.pendingErrors = Append(@, t)])

\* Mutant of catchError: the else is lost; an error handed to the hook is
\* queued for the rethrow as well.
catchErrorBoth(s, t) ==
    LET s1 == IF onerror # "none"
              THEN [s EXCEPT !.hooked = Append(@, t)]
              ELSE s
    IN  requestErrorThrow([s1 EXCEPT !.pendingErrors = Append(@, t)])

\* The catch branch of a holder's call, for the error of task t.
catchError(s, t) ==
    IF onerror # "none"
    THEN [s EXCEPT !.hooked = Append(@, t)]
    ELSE requestErrorThrow([s EXCEPT !.pendingErrors = Append(@, t)])

\* Mutant of recycle: the holder is put into the pool twice.
recycleTwice(s, rawTask) ==
    [s EXCEPT !.rawTasks[rawTask] = 0,
              !.freeTasks = Append(Append(@, rawTask), rawTask)]

\* The finally branch of a holder's call.
recycle(s, rawTask) ==
    [s EXCEPT !.rawTasks[rawTask] = 0, !.freeTasks = Append(@, rawTask)]

\* Mutant of call: no catch; the task's exception is the call's.
callNoCatch(s, rawTask, kids, throws) ==
    LET t == s.rawTasks[rawTask]
        s1 == IF t = 0 THEN s
              ELSE safeKids([s EXCEPT !.ran = Append(@, t)], t, kids)
        fails == t = 0 \/ throws
        s2 == IF fails THEN [s1 EXCEPT !.failed = Append(@, t)] ELSE s1
    IN  [s |-> recycle(s2, rawTask),
         exc |-> IF fails THEN <<[src |-> "task", t |-> t]>> ELSE <<>>]

\* Mutant of call: the holder is recycled after the try statement instead of
\* in its finally branch.
callNoFinally(s, rawTask, kids, throws) ==
    LET t == s.rawTasks[rawTask]
        s1 == IF t = 0 THEN s
              ELSE safeKids([s EXCEPT !.ran = Append(@, t)], t, kids)
        fails == t = 0 \/ throws
        s2 == IF fails
              THEN catchError([s1 EXCEPT !.failed = Append(@, t)], t)
              ELSE s1
        escapes == fails /\ onerror = "throws"
    IN  [s |-> IF escapes THEN s2 ELSE recycle(s2, rawTask),
         exc |-> IF escapes THEN <<[src |-> "hook", t |-> t]>> ELSE <<>>]

\* call of the holder rawTask.  A holder whose task is null fails with the
\* TypeError of null.call(), error 0.  An exception of the hook is the call's.
call(s, rawTask, kids, throws) ==
    LET t == s.rawTasks[rawTask]
        s1 == IF t = 0 THEN s
              ELSE safeKids([s EXCEPT !.ran = Append(@, t)], t, kids)
        fails == t = 0 \/ throws
        s2 == IF fails
              THEN catchError([s1 EXCEPT !.failed = Append(@, t)], t)
              ELSE s1
    IN  [s |-> recycle(s2, rawTask),
         exc |-> IF fails /\ onerror = "throws"
                 THEN <<[src |-> "hook", t |-> t]>> ELSE <<>>]

\* Mutant of flushIter: the index is advanced after the call has returned.
flushIterAdvanceAfter(s, kids, throws, safe) ==
    LET entry == s.queue[s.index + 1]
        r == IF safe THEN call(s, entry, kids, throws)
             ELSE rawCall(s, entry, kids, throws)
        s2 == [r.s EXCEPT !.index = @ + 1]
    IN  IF r.exc # <<>>
        THEN [s |-> [r.s EXCEPT !.escaped = @ \o r.exc], exc |-> TRUE]
        ELSE [s |-> IF s2.index > capacity THEN compact(s2) ELSE s2,
              exc |-> FALSE]

\* Mutant of flushIter: when the call throws, flush is requested again
\* before the exception leaves.
flushIterRearm(s, kids, throws, safe) ==
    LET currentIndex == s.index
        s1 == [s EXCEPT !.index = @ + 1]
        entry == s.queue[currentIndex + 1]
        r == IF safe THEN call(s1, entry, kids, throws)
             ELSE rawCall(s1, entry, kids, throws)
    IN  IF r.exc # <<>>
        THEN [s |-> requestFlush([r.s EXCEPT !.escaped = @ \o r.exc]),
              exc |-> TRUE]
        ELSE [s |-> IF r.s.index > capacity THEN compact(r.s) ELSE r.s,
              exc |-> FALSE]

\* flush: one iteration of its loop.  The index is advanced before the call;
\* an exception from the call leaves flush at once (exc), otherwise the queue
\* is compacted when the index has passed capacity.
flushIter(s, kids, throws, safe) ==
    LET currentIndex == s.index
        s1 == [s EXCEPT !.index = @ + 1]
        entry == s.queue[currentIndex + 1]
        r == IF safe THEN call(s1, entry, kids, throws)
             ELSE rawCall(s1, entry, kids, throws)
    IN  IF r.exc # <<>>
        THEN [s |-> [r.s EXCEPT !.escaped = @ \o r.exc], exc |-> TRUE]
        ELSE [s |-> IF r.s.index > capacity THEN compact(r.s) ELSE r.s,
              exc |-> FALSE]

(***************************************************************************)
(* Construction                                                            *)
(***************************************************************************)

\* The methods an instance inherits from class Raw.
RawMethods ==
    {"rawAsap", "flush", "makeRequestCallFromMutationObserver",
     "makeRequestCallFromTimer"}

\* The properties found on this.rawAsap, which Raw's constructor has
\* replaced by this.rawAsap.bind(this): those of a bound function.
BoundFunctionProperties ==
    {"name", "length", "call", "apply", "bind"}

\* Asap's constructor in module m: index.js reads makeRequestCallFromTimer
\* from this, index-nodeps.js reads it from this.rawAsap; calling a property
\* that is not there is a TypeError, which leaves the constructor and the
\* module.
AsapConstructor(m) ==
    LET receiver == IF m = "index" THEN RawMethods
                    ELSE BoundFunctionProperties
        found == "makeRequestCallFromTimer" \in receiver
    IN  [module |-> m,
         threw |-> ~found,
         requestErrorThrow |-> IF found THEN "timer" ELSE "undefined"]

(***************************************************************************)
(* The state after construction                                            *)
(***************************************************************************)

\* The fields as the constructors of Raw and Asap leave them.
Constructed ==
    /\ queue = <<>>
    /\ index = 0
    /\ flushing = FALSE
    /\ strategy \in {"observer", "timer"}
    /\ observed = FALSE
    /\ timers = {}
    /\ nreq = 0
    /\ freeTasks = <<>>
    /\ rawTasks = <<>>
    /\ pendingErrors = <<>>
    /\ onerror = "none"
    /\ pc = "idle"
    /\ nsched = 0
    /\ schedBy = <<>>
    /\ ran = <<>>
    /\ failed = <<>>
    /\ thrown = <<>>
    /\ hooked = <<>>
    /\ escaped = <<>>
    /\ nflushreq = 0
    /\ nmanual = 0
    /\ calls = <<>>
    /\ rescued = FALSE

\* index.js is the module that is loaded.
Init ==
    /\ Constructed
    /\ ctor = AsapConstructor("index")

\* The two builds of the safe scheduler.
Modules == {"index", "index-nodeps"}

\* Either build is loaded: its last line constructs the one Asap and exports
\* its asap method.
InitBuilds ==
    /\ Constructed
    /\ \E m \in Modules : ctor = AsapConstructor(m)

(***************************************************************************)
(* The client                                                              *)
(***************************************************************************)

\* The client calls asap(task) with a new task.
AsapCall ==
    /\ pc = "idle"
    /\ nsched < MaxTasks
    /\ Commit(asap(newTask(St, 0), nsched + 1))
    /\ UNCHANGED <<strategy, onerror, pc, nmanual, rescued, ctor>>

\* The client calls rawAsap(task) with a new task.
RawAsapCall ==
    /\ pc = "idle"
    /\ nsched < MaxTasks
    /\ Commit(rawAsap(newTask(St, 0), nsched + 1))
    /\ UNCHANGED <<strategy, onerror, pc, nmanual, rescued, ctor>>

\* The client calls requestFlush itself.
ManualRequestFlush ==
    /\ pc = "idle"
    /\ nmanual < MaxManual
    /\ Commit(requestFlush(St))
    /\ nmanual' = nmanual + 1
    /\ UNCHANGED <<strategy, onerror, pc, rescued, ctor>>

\* The client sets or removes the hook asap.onerror.
SetOnerror ==
    /\ pc = "idle"
    /\ \E h \in {"none", "ok", "throws"} :
        /\ h # onerror
        /\ onerror' = h
    /\ UNCHANGED <<queue, index, flushing, strategy, observed, timers, nreq,
                   freeTasks, rawTasks, pendingErrors, pc, nsched, schedBy,
                   ran, failed, thrown, hooked, escaped, nflushreq, nmanual,
                   calls, rescued, ctor>>

(***************************************************************************)
(* The host                                                                *)
(***************************************************************************)

\* handleTimer of the pair r: cancel both timers, then call the callback.
\* The callback flush starts the flush loop; throwFirstError runs at once.
HandleTimer(r, byInterval) ==
    LET s1 == [clearTimers(St, r) EXCEPT !.calls[r.id] = @ + 1]
    IN  /\ IF r.cb = "flush"
           THEN Commit(s1) /\ pc' = "flush"
           ELSE Commit(throwFirstError(s1)) /\ pc' = "idle"
        /\ rescued' = (rescued \/ (byInterval /\ ~r.to))
        /\ UNCHANGED <<strategy, onerror, nmanual, ctor>>

\* The zero-delay timeout of a pair fires.
TimeoutFires ==
    /\ pc = "idle"
    /\ \E r \in timers : r.to /\ HandleTimer(r, FALSE)

\* The interval of a pair fires.
IntervalFires ==
    /\ pc = "idle"
    /\ \E r \in timers : r.iv /\ HandleTimer(r, TRUE)

\* The host drops the zero-delay timeout of a pair (Firefox workers); the
\* interval stays armed.
TimeoutDropped ==
    /\ pc = "idle"
    /\ \E r \in timers :
        /\ r.to
        /\ timers' = (timers \ {r}) \cup {[r EXCEPT !.to = FALSE]}
    /\ UNCHANGED <<queue, index, flushing, strategy, observed, nreq, freeTasks,
                   rawTasks, pendingErrors, onerror, pc, nsched, schedBy, ran,
                   failed, thrown, hooked, escaped, nflushreq, nmanual, calls,
                   rescued, ctor>>

\* The host delivers the queued mutation records: it calls flush.
ObserverFires ==
    /\ pc = "idle"
    /\ observed
    /\ observed' = FALSE
    /\ pc' = "flush"
    /\ UNCHANGED <<queue, index, flushing, strategy, timers, nreq, freeTasks,
                   rawTasks, pendingErrors, onerror, nsched, schedBy, ran,
                   failed, thrown, hooked, escaped, nflushreq, nmanual, calls,
                   rescued, ctor>>

(***************************************************************************)
(* flush                                                                   *)
(***************************************************************************)

\* One iteration of flush over a queue of holders.
FlushIterSafe ==
    /\ pc = "flush"
    /\ index < Len(queue)
    /\ \E kids \in 0..MaxKids, throws \in BOOLEAN :
        /\ nsched + kids <= MaxTasks
        /\ LET r == flushIter(St, kids, throws, TRUE)
           IN  /\ Commit(r.s)
               /\ pc' = IF r.exc THEN "idle" ELSE "flush"
    /\ UNCHANGED <<strategy, onerror, nmanual, rescued, ctor>>

\* One iteration of flush over a queue of bare tasks.
FlushIterRaw ==
    /\ pc = "flush"
    /\ index < Len(queue)
    /\ \E kids \in 0..MaxKids, throws \in BOOLEAN :
        /\ nsched + kids <= MaxTasks
        /\ LET r == flushIter(St, kids, throws, FALSE)
           IN  /\ Commit(r.s)
               /\ pc' = IF r.exc THEN "idle" ELSE "flush"
    /\ UNCHANGED <<strategy, onerror, nmanual, rescued, ctor>>

\* The loop of flush ends: nothing is pending.
FlushDone ==
    /\ pc = "flush"
    /\ ~(index < Len(queue))
    /\ Commit(flushEnd(St))
    /\ pc' = "idle"
    /\ UNCHANGED <<strategy, onerror, nmanual, rescued, ctor>>

(***************************************************************************)
(* Specifications                                                          *)
(***************************************************************************)

Host == ObserverFires \/ TimeoutFires \/ IntervalFires \/ TimeoutDropped

\* The safe scheduler, driven through asap(task), no hook.
Next == AsapCall \/ FlushIterSafe \/ FlushDone \/ Host

Spec == Init /\ [][Next]_vars

\* The safe scheduler on a host whose armed intervals keep firing and where
\* flush, once called, runs its loop to the end (tasks return or throw).
\* Nothing is assumed of zero-delay timeouts or of the mutation observer.
SpecFair ==
    /\ Spec
    /\ WF_vars(IntervalFires)
    /\ WF_vars(FlushIterSafe)
    /\ WF_vars(FlushDone)

\* The safe scheduler with the hook set and removed at will.
NextHook == Next \/ SetOnerror

SpecHook == Init /\ [][NextHook]_vars

\* The raw scheduler, driven through rawAsap(task) and requestFlush().
NextRaw == RawAsapCall \/ ManualRequestFlush \/ FlushIterRaw \/ FlushDone \/ Host

SpecRaw == Init /\ [][NextRaw]_vars

\* A module whose constructor threw exports nothing: there is no asap for a
\* client to call and nothing was requested of the host.
NextBuilds == ~ctor.threw /\ Next

SpecBuilds == InitBuilds /\ [][NextBuilds]_vars

(***************************************************************************)
(* Properties                                                              *)
(***************************************************************************)

Range(f) == {f[i] : i \in 1..Len(f)}

\* No flush is requested of the host and none is running.
NoFlushRequested ==
    /\ pc = "idle"
    /\ ~observed
    /\ \A r \in timers : r.cb # "flush"

NoErrorThrowRequested == \A r \in timers : r.cb # "error"

\* C1: under the safe scheduler with no hook, the tasks are invoked in the
\* order they were scheduled, none twice, whichever of them throw, and once
\* no flush is requested or running every scheduled task has been invoked.
C1_ExactlyOnceInOrder ==
    /\ Len(ran) <= nsched
    /\ \A i \in 1..Len(ran) : ran[i] = i
    /\ NoFlushRequested => Len(ran) = nsched

\* Witness of C1: at least three tasks, one scheduled by a running task and
\* one that threw, have all been invoked.
C1_Witness ==
    /\ NoFlushRequested
    /\ nsched >= 3
    /\ Len(ran) = nsched
    /\ failed # <<>>
    /\ \E t \in 1..nsched : schedBy[t] # 0

\* C2: with no hook, throwFirstError throws the errors of the failed tasks in
\* the order the tasks failed (which is the order they were scheduled in),
\* each once: what has been thrown, followed by what is queued, is the list
\* of failures, and once no error timer is outstanding all have been thrown.
C2_ErrorsFIFO ==
    /\ thrown \o pendingErrors = failed
    /\ \A i, j \in 1..Len(failed) : i < j => failed[i] < failed[j]
    /\ NoErrorThrowRequested => thrown = failed

\* Witness of C2: two errors have been thrown in order while the timer pair
\* requested first is still outstanding: the host fired the later ones first.
C2_Witness ==
    /\ strategy = "observer"
    /\ Len(thrown) = 2
    /\ thrown[1] < thrown[2]
    /\ \E r \in timers : r.cb = "error" /\ r.id = 1

\* C3: with no hook, a flush pass returns only when every scheduled task has
\* been invoked, throwing tasks or not, and an error is thrown only between
\* turns, by a turn that found it captured already.
C3_ThrowDoesNotInterrupt ==
    /\ [][(pc = "flush" /\ pc' = "idle")
            => (queue' = <<>> /\ Len(ran') = nsched' /\ thrown' = thrown)]_vars
    /\ [][thrown' # thrown
            => /\ pc = "idle" /\ pc' = "idle"
               /\ pendingErrors # <<>>
               /\ thrown' = Append(thrown, Head(pendingErrors))
               /\ ran' = ran]_vars

\* Witness of C3: A returns, B throws, C returns; all three ran in one pass
\* and one later turn threw B's error.
C3_Witness ==
    /\ pc = "idle"
    /\ ran = <<1, 2, 3>>
    /\ failed = <<2>>
    /\ thrown = <<2>>
    /\ nflushreq = 1
    /\ NoErrorThrowRequested

\* C4: a rawAsap call of the client calls requestFlush once when the storage
\* is empty and not at all otherwise; the rawAsap calls made by a running
\* task call it never; with nothing scheduled it has not been called.
C4_RequestFlushOnlyWhenEmpty ==
    /\ [][(pc = "idle" /\ nsched' = nsched + 1)
            => nflushreq' = nflushreq + (IF Len(queue) = 0 THEN 1 ELSE 0)]_vars
    /\ [][pc = "flush" => nflushreq' = nflushreq]_vars
    /\ [](nsched = 0 /\ nmanual = 0 => nflushreq = 0)

\* Witness of C4: a second request was issued for a task scheduled after the
\* queue had drained, and tasks scheduled by running tasks issued none.
C4_Witness ==
    /\ nmanual = 0
    /\ nflushreq = 2
    /\ nsched >= 3
    /\ \E t \in 1..nsched : schedBy[t] # 0

\* C5: a task scheduled by a running task is invoked after every task
\* scheduled before it.
C5_NestedAfterPending ==
    \A j \in 1..Len(ran) :
        schedBy[ran[j]] # 0
            => \A q \in 1..(ran[j] - 1) : \E i \in 1..(j - 1) : ran[i] = q

\* Witness of C5: a task scheduled by task p has run, and so has a task that
\* was pending behind p when p ran.
C5_Witness ==
    \E j \in 1..Len(ran) :
        /\ schedBy[ran[j]] # 0
        /\ \E q \in 1..nsched : schedBy[ran[j]] < q /\ q < ran[j]

\* C6: when an invocation returns with the index above capacity, the storage
\* is compacted in that iteration: index is 0 and the storage holds exactly
\* the tasks that were pending, those just scheduled included, in order.
C6_Compaction ==
    [][(pc = "flush" /\ ran' # ran /\ escaped' = escaped
            /\ index + 1 > capacity)
        => /\ index' = 0
           /\ queue' = SubSeq(queue, index + 2, Len(queue))
                         \o [i \in 1..(nsched' - nsched) |-> nsched + i]
           /\ Len(queue') = nsched' - Len(ran')
           /\ \A i \in 1..Len(queue') : queue'[i] \notin Range(ran')]_vars

\* Witness of C6: in the first and only flush pass, the storage has just been
\* compacted with tasks still pending.
C6_Witness ==
    /\ pc = "flush"
    /\ nflushreq = 1
    /\ nmanual = 0
    /\ escaped = <<>>
    /\ Len(ran) = capacity + 1
    /\ index = 0
    /\ Len(queue) >= 1

\* C7: at the raw level every invocation is of the task scheduled right
\* after the one invoked last, also when the last one threw out of flush: no
\* task is invoked twice and none is skipped.
C7_ResumeAfterThrow ==
    [][ran' # ran
        => /\ Len(ran') = Len(ran) + 1
           /\ SubSeq(ran', 1, Len(ran)) = ran
           /\ ran'[Len(ran')] \notin Range(ran)
           /\ ran'[Len(ran')] = Len(ran) + 1]_vars

\* Witness of C7: the task behind one that threw out of flush has run.
C7_Witness ==
    /\ escaped # <<>>
    /\ ran # <<>>
    /\ ran[Len(ran)] = escaped[Len(escaped)].t + 1

\* C8 as claimed: no exception ever leaves a holder's call into flush.
C8_NoEscape == escaped = <<>>

\* C8 as amended: no exception of a task leaves a holder's call; the only
\* exception that leaves it is one thrown by the hook, which was handed the
\* task's error.  With no hook, or a hook that returns, a flush pass ends
\* with every scheduled task invoked.
C8_OnlyHookEscapes ==
    /\ [](\A i \in 1..Len(escaped) :
            escaped[i].src = "hook" /\ escaped[i].t \in Range(hooked))
    /\ [][escaped' # escaped => onerror = "throws"]_vars
    /\ [][(pc = "flush" /\ pc' = "idle" /\ onerror # "throws")
            => queue' = <<>>]_vars

\* Witness of C8: the hook has thrown out of flush once, and has handled
\* another error by returning.
C8_Witness ==
    /\ Len(escaped) = 1
    /\ Len(hooked) = 2

\* C9: whenever a holder's call finishes, the holder's task is null and the
\* holder is the last entry of the free pool, in which it occurs once.
C9_HolderRecycled ==
    [][(pc = "flush" /\ index < Len(queue))
        => LET rawTask == queue[index + 1]
           IN  /\ rawTasks'[rawTask] = 0
               /\ freeTasks' # <<>>
               /\ freeTasks'[Len(freeTasks')] = rawTask
               /\ Cardinality({i \in 1..Len(freeTasks') :
                                freeTasks'[i] = rawTask}) = 1]_vars

\* Witness of C9: a call has finished in each way: the task returned, the
\* error was queued, the hook returned, the hook threw.
C9_Witness ==
    /\ pc = "idle"
    /\ Len(escaped) >= 1
    /\ Len(hooked) > Len(escaped)
    /\ Len(failed) > Len(hooked)
    /\ Len(ran) > Len(failed)
    /\ Len(freeTasks) = Len(rawTasks)

\* C10: with requestFlush called at will, the entries from index on are at
\* all times exactly the scheduled tasks not invoked yet, in order, and a
\* flush that finds nothing pending invokes nothing and leaves the storage
\* empty with index 0.
C10_ExtraFlushHarmless ==
    /\ [](/\ index <= Len(queue)
          /\ SubSeq(queue, index + 1, Len(queue))
               = [i \in 1..(nsched - Len(ran)) |-> Len(ran) + i])
    /\ [][(pc = "flush" /\ ~(index < Len(queue)))
            => (ran' = ran /\ queue' = <<>> /\ index' = 0)]_vars

\* Witness of C10: flush has been called a second time after the queue was
\* drained and finds nothing pending.
C10_Witness ==
    /\ pc = "flush"
    /\ nmanual >= 1
    /\ queue = <<>>
    /\ nsched >= 1
    /\ Len(ran) = nsched

\* C11: at the raw level the exception of a task leaves flush in the
\* iteration that invoked it: the pass is over, the entries behind stay in
\* the storage uninvoked with flushing true, and no flush is requested; with
\* no requestFlush call of the client, no request is outstanding after an
\* exception and nothing is invoked any more.
C11_ThrowInterruptsRawFlush ==
    /\ [][escaped' # escaped
            => /\ pc = "flush" /\ pc' = "idle"
               /\ ran' = Append(ran, queue[index + 1])
               /\ escaped' = Append(escaped,
                                    [src |-> "task", t |-> queue[index + 1]])
               /\ index' = index + 1
               /\ SubSeq(queue', 1, Len(queue)) = queue
               /\ flushing' /\ flushing
               /\ nflushreq' = nflushreq
               /\ timers' = timers /\ observed' = observed]_vars
    /\ []((escaped # <<>> /\ nmanual = 0)
            => /\ NoFlushRequested
               /\ flushing
               /\ Len(escaped) = 1
               /\ ran[Len(ran)] = escaped[1].t)

\* Witness of C11: a task threw out of flush, tasks are pending behind it,
\* and the client has not called requestFlush.
C11_Witness ==
    /\ pc = "idle"
    /\ escaped # <<>>
    /\ nmanual = 0
    /\ index < Len(queue)
    /\ Len(ran) < nsched

\* C12: handleTimer of a timer pair calls the callback at most once, and a
\* pair is gone exactly when its callback has been called: the first of the
\* two timers to fire cancels both, whether the callback returns or throws.
\* Until then the interval stays armed, the timeout dropped or not, so the
\* host can still call the callback.
C12_OneCallPerRequest ==
    /\ Len(calls) = nreq
    /\ \A id \in 1..nreq :
        /\ calls[id] <= 1
        /\ calls[id] = 0 <=> \E r \in timers : r.id = id
    /\ \A r \in timers : r.iv

\* Witness of C12: with timers only, the interval of a pair whose timeout
\* was dropped has called its callback, a callback has thrown, and every
\* pair requested has called its callback once.
C12_Witness ==
    /\ strategy = "timer"
    /\ rescued
    /\ thrown # <<>>
    /\ nreq >= 3
    /\ timers = {}
    /\ \A id \in 1..nreq : calls[id] = 1

\* The timer pairs requested for throwFirstError.
ErrorTimers(ts) == {r \in ts : r.cb = "error"}

\* C13: an error of a task is handled in one of two ways, by the hook as it
\* is when the task fails.  Hook set: the hook gets the error, pendingErrors
\* and the error timers stay as they are.  No hook: the error is appended to
\* pendingErrors and one timer pair is requested for throwFirstError.  So
\* every failure is in exactly one of hooked and thrown \o pendingErrors.
C13_ErrorHandledOneWay ==
    /\ [][failed' # failed
            => LET t == failed'[Len(failed')]
               IN  /\ failed' = Append(failed, t)
                   /\ IF onerror # "none"
                      THEN /\ hooked' = Append(hooked, t)
                           /\ pendingErrors' = pendingErrors
                           /\ ErrorTimers(timers') = ErrorTimers(timers)
                           /\ nreq' = nreq
                      ELSE /\ hooked' = hooked
                           /\ pendingErrors' = Append(pendingErrors, t)
                           /\ ErrorTimers(timers')
                                = ErrorTimers(timers)
                                    \cup {[id |-> nreq + 1, cb |-> "error",
                                           to |-> TRUE, iv |-> TRUE]}
                           /\ nreq' = nreq + 1]_vars
    /\ [](/\ Len(failed) = Len(hooked) + Len(thrown) + Len(pendingErrors)
          /\ Range(failed) = Range(hooked) \cup Range(thrown \o pendingErrors)
          /\ Range(hooked) \cap Range(thrown \o pendingErrors) = {})

\* Witness of C13: errors have gone both ways: one to the hook, one thrown
\* by throwFirstError, one still queued.
C13_Witness ==
    /\ hooked # <<>>
    /\ thrown # <<>>
    /\ pendingErrors # <<>>

\* C14: on a host with timers only, whatever zero-delay timeouts it drops,
\* while a scheduled task has not been invoked it will be: every task
\* scheduled through asap is eventually invoked.
C14_TimersOnlyEventuallyRuns ==
    (strategy = "timer" /\ Len(ran) < nsched) ~> (Len(ran) = nsched)

\* Witness of C14: with timers only and no task failing, a flush was called
\* by the interval of a pair whose timeout was dropped, and all tasks ran.
C14_Witness ==
    /\ strategy = "timer"
    /\ failed = <<>>
    /\ rescued
    /\ nsched >= 2
    /\ Len(ran) = nsched

\* C15 as claimed: when a task has thrown out of flush and no flush is
\* requested, the next rawAsap call makes processing continue: after it a
\* flush is requested.
C15_RawAsapResumes ==
    [][(pc = "idle" /\ escaped # <<>> /\ index > 0 /\ NoFlushRequested
            /\ nsched' = nsched + 1)
        => ~NoFlushRequested']_vars

\* C15 as amended: the index is kept across the exception, but a rawAsap call
\* made while the interrupted storage is still there only appends its task:
\* it requests no flush and nothing is invoked.  Tasks are invoked after an
\* exception only if the client has called requestFlush, and then the next
\* one invoked is the one behind the task that threw.
C15_RawAsapAfterThrowOnlyAppends ==
    /\ [][(pc = "idle" /\ index > 0 /\ nsched' = nsched + 1)
            => /\ queue' = Append(queue, nsched + 1)
               /\ index' = index
               /\ nflushreq' = nflushreq
               /\ timers' = timers /\ observed' = observed
               /\ ran' = ran /\ pc' = "idle"]_vars
    /\ [][(escaped # <<>> /\ ran' # ran)
            => /\ nmanual >= 1
               /\ ran' = Append(ran, Len(ran) + 1)]_vars

\* Witness of C15: task p threw after scheduling a task; the client then
\* called rawAsap (no request was issued for it) and later requestFlush, and
\* the tasks behind p and the client's new task have all been invoked.
C15_Witness ==
    /\ Len(escaped) = 1
    /\ nflushreq - nmanual = 1
    /\ nmanual >= 1
    /\ Len(ran) = nsched
    /\ \E t \in 1..nsched :
        /\ schedBy[t] = 0
        /\ \E k \in 1..(t - 1) : schedBy[k] = escaped[1].t

\* The value of index while the call of the current iteration runs: flush
\* has advanced it already.
IndexInCall ==
    IF pc = "flush" /\ index < Len(queue) THEN index + 1 ELSE index

\* C16: 0 <= index <= queue.length, between the iterations of flush and
\* during a call, whatever is scheduled, thrown or compacted.
C16_IndexWithinQueue ==
    /\ 0 <= index
    /\ index <= Len(queue)
    /\ IndexInCall <= Len(queue)

\* Witness of C16: the last task of the storage threw out of flush, so the
\* index stays at the length of a storage that is not empty.
C16_Witness ==
    /\ pc = "idle"
    /\ escaped # <<>>
    /\ index = Len(queue)
    /\ index > capacity

C18_NormalReturnDrained ==
    [][(pc = "flush" /\ pc' = "idle" /\ escaped' = escaped)
        => /\ queue' = <<>>
           /\ index' = 0
           /\ ~flushing'
           /\ Range(ran') = 1..nsched'
           /\ Len(ran') = nsched']_vars

\* Witness of C18: flush has returned normally after running tasks that
\* scheduled further tasks, the index having passed capacity on the way.
C18_Witness ==
    /\ pc = "idle"
    /\ escaped = <<>>
    /\ queue = <<>>
    /\ ~flushing
    /\ Len(ran) = nsched
    /\ nsched > capacity
    /\ nflushreq = 1
    /\ \E t \in 1..nsched : schedBy[t] # 0

\* C19: between turns flushing is true exactly when the storage is not
\* empty; and as long as no exception has left flush, flushing implies that
\* a flush is requested of the host, and conversely unless the client has
\* called requestFlush itself.
C19_FlushingIffNonEmpty ==
    pc = "idle"
        => /\ flushing <=> Len(queue) > 0
           /\ (flushing /\ escaped = <<>>) => ~NoFlushRequested
           /\ (~NoFlushRequested /\ nmanual = 0) => flushing

\* Witness of C19: between turns, after a first flush has drained the queue,
\* flushing is true again.
C19_Witness ==
    /\ pc = "idle"
    /\ flushing
    /\ ran # <<>>
    /\ escaped = <<>>
    /\ nflushreq - nmanual = 2


\* C20: both builds construct without error, and in each requestErrorThrow
\* is the timer-based primitive wrapping throwFirstError.
C20_BothBuildsConstruct ==
    /\ ~ctor.threw
    /\ ctor.requestErrorThrow = "timer"

\* The failing state of C20: index-nodeps.js was loaded and its constructor
\* threw before requestErrorThrow was assigned.
C20_Witness ==
    /\ ctor.module = "index-nodeps"
    /\ ctor.threw
    /\ ctor.requestErrorThrow = "undefined"


\* C21: under the safe scheduler driven through asap(task) with no hook,
\* whenever a task is pending (index < queue.length) and no flush is
\* executing, a flush is requested of the host: the observer has a record
\* to deliver or a flush timer pair is armed.
C21_PendingHasFlushRequest ==
    (pc = "idle" /\ index < Len(queue))
        => (observed \/ \E r \in timers : r.cb = "flush" /\ (r.to \/ r.iv))

\* Witness of C21: after a first flush in which a task threw, and with the
\* rethrow of its error still requested, a task is pending between turns.
C21_Witness ==
    /\ pc = "idle"
    /\ index < Len(queue)
    /\ failed # <<>>
    /\ pendingErrors # <<>>
    /\ nflushreq = 2


\* C22: with no hook configured, in every state between turns the number of
\* error-rethrow timer requests that have not fired yet equals
\* pendingErrors.length; and every call of throwFirstError by such a timer
\* finds an error: it throws the first of pendingErrors and removes it.
C22_ErrorTimersMatchPendingErrors ==
    /\ [](pc = "idle" => Cardinality(ErrorTimers(timers)) = Len(pendingErrors))
    /\ [][(Cardinality(ErrorTimers(timers')) < Cardinality(ErrorTimers(timers)))
            => /\ pendingErrors # <<>>
               /\ thrown' = Append(thrown, Head(pendingErrors))
               /\ pendingErrors' = Tail(pendingErrors)
               /\ Cardinality(ErrorTimers(timers'))
                    = Cardinality(ErrorTimers(timers)) - 1]_vars

\* Witness of C22: two errors are queued between turns with two rethrow
\* timer pairs armed, after throwFirstError has thrown an earlier error.
C22_Witness ==
    /\ pc = "idle"
    /\ Len(pendingErrors) = 2
    /\ Cardinality(ErrorTimers(timers)) = 2
    /\ Len(thrown) = 1


\* The holders in the pending slots of the queue (positions from index on).
PendingHolders == {queue[i] : i \in (index + 1)..Len(queue)}

\* C23: in every state of the safe scheduler, hook or no hook: every holder
\* in freeTasks has task = null, no holder is twice in freeTasks, no holder
\* is in freeTasks and in a pending slot of the queue, and every pending
\* slot holds a holder of its own, bound to a task that has not run: binding
\* a task to a pooled holder has overwritten no task that was still to run.
C23_HolderPoolConsistent ==
    /\ \A i \in 1..Len(freeTasks) : rawTasks[freeTasks[i]] = 0
    /\ \A i, j \in 1..Len(freeTasks) : freeTasks[i] = freeTasks[j] => i = j
    /\ Range(freeTasks) \cap PendingHolders = {}
    /\ \A i, j \in (index + 1)..Len(queue) : queue[i] = queue[j] => i = j
    /\ \A h \in PendingHolders :
        /\ rawTasks[h] # 0
        /\ rawTasks[h] \notin Range(ran)
    /\ \A t \in 1..nsched :
        t \notin Range(ran) => \E h \in PendingHolders : rawTasks[h] = t

\* Witness of C23: a task scheduled from inside a running task got a new
\* holder while a recycled one is back in the pool and others are
\* pending, one of them a holder taken from the pool.
C23_Witness ==
    /\ Len(rawTasks) >= 2
    /\ freeTasks # <<>>
    /\ PendingHolders # {}
    /\ \E h \in PendingHolders : rawTasks[h] > h
    /\ \E t \in 1..nsched : schedBy[t] # 0


\* The tasks scheduled and not yet invoked.
Waiting == nsched - Len(ran)

\* C24: asap makes a new holder only when freeTasks is empty and otherwise
\* pops one: a step that schedules n tasks makes n - freeTasks.length
\* holders, none if the pool has that many, and a call of asap by the client
\* with a holder in the pool pops the last one and puts it in the queue.
\* Every holder is in the pool or bound to a waiting task; and when holders
\* are made, their total is at most the number of tasks that are at that
\* moment scheduled and not completed (the waiting ones and, inside flush,
\* the one executing), so it never exceeds the maximum of that number.
C24_AllocateOnlyWhenPoolEmpty ==
    /\ [](Len(rawTasks) = Len(freeTasks) + Waiting)
    /\ [][LET scheduled == nsched' - nsched
              made == Len(rawTasks') - Len(rawTasks)
          IN  /\ made = IF scheduled > Len(freeTasks)
                        THEN scheduled - Len(freeTasks) ELSE 0
              /\ (pc = "idle" /\ scheduled = 1 /\ freeTasks # <<>>)
                    => /\ freeTasks' = SubSeq(freeTasks, 1, Len(freeTasks) - 1)
                       /\ queue' = Append(queue, freeTasks[Len(freeTasks)])
              /\ made > 0
                    => Len(rawTasks')
                         <= Waiting' + (IF pc = "flush" THEN 1 ELSE 0)]_vars

\* Witness of C24: more tasks have been scheduled than holders were made,
\* some holders having been made while the pool was empty and a pooled
\* holder serving a later task.
C24_Witness ==
    /\ Len(rawTasks) >= 2
    /\ nsched > Len(rawTasks)
    /\ freeTasks # <<>>
    /\ \E h \in PendingHolders : rawTasks[h] > h

====
